---- MODULE Spec2Model ----
(***************************************************************************)
(* A model of svg_to_ico.py: convert_svg_to_ico(svg_path, ico_path).       *)
(*                                                                         *)
(* The state is the working directory (the files at the paths the function *)
(* touches) and, for every invocation, its arguments, its position in the  *)
(* function body, the image object it holds, the exception its try body    *)
(* raised and the value or exception the caller receives.                  *)
(*                                                                         *)
(* The two library calls are modelled by what they do to the files:        *)
(*   cairosvg.svg2png  reads and parses the source, renders it, and only   *)
(*                     then writes the bitmap to write_to;                 *)
(*   PIL Image.save    loads the pixel data, opens the destination with    *)
(*                     "w+b" (which truncates it), and runs the ICO        *)
(*                     encoder, which keeps of the requested sizes those   *)
(*                     no larger than the image and no larger than 256.    *)
(* Faults of the environment (an unwritable directory, a full disk, an     *)
(* interrupt) are choices of the outcome of the call they hit.             *)
(***************************************************************************)
EXTENDS Integers, Sequences, FiniteSets, TLC

\* The number of invocations that may run at once in the same directory.
MaxProcs == 2

Procs == 1..MaxProcs

\* line 8
temp_png == "temp_icon.png"

\* The paths of the working directory: the temporary bitmap and the two
\* paths of the usage line (line 44).  Arguments range over all of them.
Paths == {temp_png, "logo.svg", "logo.ico"}

\* line 12
output_width == 1024

\* line 12
output_height == 1024

\* lines 19-28
sizes ==
  << <<16, 16>>, <<24, 24>>, <<32, 32>>, <<48, 48>>,
     <<64, 64>>, <<128, 128>>, <<256, 256>>, <<512, 512>> >>

VARIABLES
  active,     \* the invocations that were started
  fs,         \* path -> the file at that path
  fs0,        \* the files as they were before the invocations started
  svg_path,   \* invocation -> its first argument
  ico_path,   \* invocation -> its second argument
  pc,         \* invocation -> its position in the function body
  img,        \* invocation -> the image Image.open returned
  raised,     \* invocation -> the class of the exception the try body raised
  failed,     \* invocation -> the stage the try body failed in
  result,     \* invocation -> what the caller receives
  trace       \* invocation -> the calls it has made, in order

vars == <<active, fs, fs0, svg_path, ico_path, pc, img, raised, failed, result, trace>>

-----------------------------------------------------------------------------
\* Files.  kind: what the bytes are; by: the invocation that wrote them (0 for
\* a file that was there before); dim: pixel size of a bitmap; entries: the
\* directory of an icon container.

Absent == [kind |-> "absent", by |-> 0, dim |-> <<0, 0>>, entries |-> <<>>]

\* a well-formed vector image
SvgFile == [kind |-> "svg", by |-> 0, dim |-> <<0, 0>>, entries |-> <<>>]

\* any other file that was there before
OldFile == [kind |-> "old", by |-> 0, dim |-> <<0, 0>>, entries |-> <<>>]

PngFile(p) ==
  [kind |-> "png", by |-> p, dim |-> <<output_width, output_height>>, entries |-> <<>>]

PartialPng(p) == [kind |-> "png_part", by |-> p, dim |-> <<0, 0>>, entries |-> <<>>]

IcoFile(p, es) == [kind |-> "ico", by |-> p, dim |-> <<0, 0>>, entries |-> es]

PartialIco(p) == [kind |-> "ico_part", by |-> p, dim |-> <<0, 0>>, entries |-> <<>>]

Exists(f) == f.kind # "absent"

-----------------------------------------------------------------------------
\* The ICO encoder's choice of sizes, as Pillow documents it for the "sizes"
\* argument ("any sizes bigger than the original size or 256 will be
\* ignored"): sorted(set(sizes)), skipping every size wider or higher than the
\* image or than 256.

TupleLess(a, b) == a[1] < b[1] \/ (a[1] = b[1] /\ a[2] < b[2])

RECURSIVE SortedSeq(_)
SortedSeq(S) ==
  IF S = {} THEN <<>>
  ELSE LET m == CHOOSE x \in S : \A y \in S \ {x} : TupleLess(x, y)
       IN  <<m>> \o SortedSeq(S \ {m})

IcoEntries(req, width, height) ==
  SortedSeq({ s \in { req[i] : i \in DOMAIN req } :
              ~(s[1] > width \/ s[2] > height \/ s[1] > 256 \/ s[2] > 256) })

\* ExceptClause without the except clause: the exception reaches the caller.
ExceptClause_Propagates(exc) == exc

\* lines 34-36: an Exception is caught and False returned; anything else
\* (KeyboardInterrupt, SystemExit) is not caught and propagates.
ExceptClause(exc) == IF exc = "Exception" THEN "False" ELSE exc

\* What the try/except part of the body hands to the caller, once it is over.
Primary(p) == IF raised[p] = "none" THEN "True" ELSE ExceptClause(raised[p])

ExcClass(o) ==
  IF o \in {"interrupt", "interrupt_before", "interrupt_write"}
  THEN "KeyboardInterrupt" ELSE "Exception"

-----------------------------------------------------------------------------
InitWith(A, Args) ==
  /\ active = A
  /\ fs \in [Paths -> {Absent, SvgFile, OldFile}]
  /\ fs0 = fs
  /\ svg_path \in [Procs -> Args]
  /\ ico_path \in [Procs -> Args]
  /\ \A p \in Procs \ A : svg_path[p] = "logo.svg" /\ ico_path[p] = "logo.ico"
  /\ pc = [p \in Procs |-> IF p \in A THEN "svg2png" ELSE "idle"]
  /\ img = [p \in Procs |-> Absent]
  /\ raised = [p \in Procs |-> "none"]
  /\ failed = [p \in Procs |-> "none"]
  /\ result = [p \in Procs |-> "none"]
  /\ trace = [p \in Procs |-> <<>>]

\* One invocation of the function, with any arguments.
Init == InitWith({1}, Paths)

\* line 44: the script, run MaxProcs times at once in the same working
\* directory; every run calls convert_svg_to_ico("logo.svg", "logo.ico").
InitConc ==
  /\ InitWith(Procs, Paths)
  /\ \A p \in Procs : svg_path[p] = "logo.svg" /\ ico_path[p] = "logo.ico"

\* line 44 again: the script, run MaxProcs times one after the other.
InitSeq == InitConc

-----------------------------------------------------------------------------
\* Svg2png whose failure returns at once, as if the except clause were not
\* followed by the finally block.
Svg2png_ReturnsWithoutFinally(p) ==
  /\ pc[p] = "svg2png"
  /\ \E o \in IF fs[svg_path[p]].kind = "svg"
              THEN {"ok", "write_refused", "write_partial", "interrupt"}
              ELSE {"unreadable", "interrupt"} :
       /\ fs' = [fs EXCEPT ![temp_png] =
                   CASE o = "ok" -> PngFile(p)
                     [] o = "write_partial" -> PartialPng(p)
                     [] OTHER -> @]
       /\ pc' = [pc EXCEPT ![p] = IF o = "ok" THEN "open" ELSE "done"]
       /\ raised' = [raised EXCEPT ![p] = IF o = "ok" THEN @ ELSE ExcClass(o)]
       /\ failed' = [failed EXCEPT ![p] = IF o = "ok" THEN @ ELSE "rasterize"]
       /\ result' = [result EXCEPT ![p] =
                       IF o = "ok" THEN @ ELSE ExceptClause(ExcClass(o))]
  /\ trace' = [trace EXCEPT ![p] = Append(@, "svg2png")]
  /\ UNCHANGED <<active, fs0, svg_path, ico_path, img>>

\* line 12: svg2png(url=svg_path, write_to=temp_png, ...)
Svg2png(p) ==
  /\ pc[p] = "svg2png"
  /\ \E o \in IF fs[svg_path[p]].kind = "svg"
              THEN {"ok", "write_refused", "write_partial", "interrupt"}
              ELSE {"unreadable", "interrupt"} :
       /\ fs' = [fs EXCEPT ![temp_png] =
                   CASE o = "ok" -> PngFile(p)
                     [] o = "write_partial" -> PartialPng(p)
                     [] OTHER -> @]
       /\ pc' = [pc EXCEPT ![p] = IF o = "ok" THEN "open" ELSE "finally"]
       /\ raised' = [raised EXCEPT ![p] = IF o = "ok" THEN @ ELSE ExcClass(o)]
       /\ failed' = [failed EXCEPT ![p] = IF o = "ok" THEN @ ELSE "rasterize"]
  /\ trace' = [trace EXCEPT ![p] = Append(@, "svg2png")]
  /\ UNCHANGED <<active, fs0, svg_path, ico_path, img, result>>

\* line 15: img = Image.open(temp_png)
ImageOpen(p) ==
  /\ pc[p] = "open"
  /\ \E o \in CASE fs[temp_png].kind = "png" -> {"ok", "interrupt"}
                [] fs[temp_png].kind = "png_part" -> {"ok", "unidentified"}
                [] OTHER -> {"unidentified"} :
       /\ img' = [img EXCEPT ![p] = IF o = "ok" THEN fs[temp_png] ELSE @]
       /\ pc' = [pc EXCEPT ![p] = IF o = "ok" THEN "save" ELSE "finally"]
       /\ raised' = [raised EXCEPT ![p] = IF o = "ok" THEN @ ELSE ExcClass(o)]
       /\ failed' = [failed EXCEPT ![p] = IF o = "ok" THEN @ ELSE "pack"]
  /\ trace' = [trace EXCEPT ![p] = Append(@, "open")]
  /\ UNCHANGED <<active, fs, fs0, svg_path, ico_path, result>>

\* lines 16-32: img.save(ico_path, format="ICO", sizes=[...]); return True
ImageSave(p) ==
  /\ pc[p] = "save"
  /\ LET dest == ico_path[p]
         created == ~Exists(fs[dest])
     IN  \E o \in IF img[p].kind = "png"
                  THEN {"ok", "encode_failed", "open_refused", "write_failed",
                        "write_failed_removed", "interrupt_before", "interrupt_write"}
                  ELSE {"load_failed"} :
           /\ o = "write_failed_removed" => created
           /\ fs' = [fs EXCEPT ![dest] =
                       CASE o = "ok" ->
                              IcoFile(p, IcoEntries(sizes, img[p].dim[1], img[p].dim[2]))
                         [] o = "write_failed_removed" -> Absent
                         [] o \in {"write_failed", "interrupt_write"} -> PartialIco(p)
                         [] OTHER -> @]
           /\ raised' = [raised EXCEPT ![p] = IF o = "ok" THEN @ ELSE ExcClass(o)]
           /\ failed' = [failed EXCEPT ![p] =
                           CASE o = "ok" -> @
                             [] o \in {"load_failed", "encode_failed", "interrupt_before"} -> "pack"
                             [] OTHER -> "write"]
  /\ pc' = [pc EXCEPT ![p] = "finally"]
  /\ trace' = [trace EXCEPT ![p] = Append(@, "save")]
  /\ UNCHANGED <<active, fs0, svg_path, ico_path, img, result>>

\* ExistsCheck that removes only after a success, as if the removal were the
\* last statement of the try body.
ExistsCheck_OnlyAfterSuccess(p) ==
  /\ pc[p] = "finally"
  /\ LET go == Exists(fs[temp_png]) /\ raised[p] = "none"
     IN  /\ pc' = [pc EXCEPT ![p] = IF go THEN "remove" ELSE "done"]
         /\ result' = [result EXCEPT ![p] = IF go THEN @ ELSE Primary(p)]
  /\ trace' = [trace EXCEPT ![p] = Append(@, "cleanup")]
  /\ UNCHANGED <<active, fs, fs0, svg_path, ico_path, img, raised, failed>>

\* lines 38-39: finally: if os.path.exists(temp_png)
\* With nothing to remove the function ends here.
ExistsCheck(p) ==
  /\ pc[p] = "finally"
  /\ pc' = [pc EXCEPT ![p] = IF Exists(fs[temp_png]) THEN "remove" ELSE "done"]
  /\ result' = [result EXCEPT ![p] = IF Exists(fs[temp_png]) THEN @ ELSE Primary(p)]
  /\ trace' = [trace EXCEPT ![p] = Append(@, "cleanup")]
  /\ UNCHANGED <<active, fs, fs0, svg_path, ico_path, img, raised, failed>>

\* line 40: os.remove(temp_png), and the end of the function.  An OSError
\* raised here leaves the finally block in place of the pending return value
\* or exception.
OsRemove(p) ==
  /\ pc[p] = "remove"
  /\ \E o \in IF Exists(fs[temp_png]) THEN {"ok", "oserror"} ELSE {"missing"} :
       /\ fs' = [fs EXCEPT ![temp_png] = IF o = "ok" THEN Absent ELSE @]
       /\ result' = [result EXCEPT ![p] = IF o = "ok" THEN Primary(p) ELSE "OSError"]
  /\ pc' = [pc EXCEPT ![p] = "done"]
  /\ UNCHANGED <<active, fs0, svg_path, ico_path, img, raised, failed, trace>>

Next ==
  \/ \E p \in active : Svg2png(p)
  \/ \E p \in active : ImageOpen(p)
  \/ \E p \in active : ImageSave(p)
  \/ \E p \in active : ExistsCheck(p)
  \/ \E p \in active : OsRemove(p)

Spec == Init /\ [][Next]_vars

SpecConc == InitConc /\ [][Next]_vars

\* A run starts only when the runs before it have ended.
Turn(p) == \A q \in active : q < p => pc[q] = "done"

NextSeq ==
  \/ \E p \in active : Turn(p) /\ Svg2png(p)
  \/ \E p \in active : ImageOpen(p)
  \/ \E p \in active : ImageSave(p)
  \/ \E p \in active : ExistsCheck(p)
  \/ \E p \in active : OsRemove(p)

SpecSeq == InitSeq /\ [][NextSeq]_vars

-----------------------------------------------------------------------------
TypeOK ==
  /\ active \subseteq Procs
  /\ \A p \in Procs :
       /\ pc[p] \in {"idle", "svg2png", "open", "save", "finally", "remove", "done"}
       /\ raised[p] \in {"none", "Exception", "KeyboardInterrupt"}
       /\ failed[p] \in {"none", "rasterize", "pack", "write"}
       /\ result[p] \in {"none", "True", "False", "KeyboardInterrupt", "OSError"}

-----------------------------------------------------------------------------
\* The invocations that have returned to their caller.
Ended(p) == p \in active /\ pc[p] = "done"

\* line 44: the call the script itself makes.
UsageCall(p) == svg_path[p] = "logo.svg" /\ ico_path[p] = "logo.ico"

InTrace(p, s) == \E i \in DOMAIN trace[p] : trace[p][i] = s

C2_AtomicDestination ==
  \A p \in Procs :
    (Ended(p) /\ UsageCall(p) /\ failed[p] \in {"pack", "write"}
       /\ raised[p] = "Exception")
      => (~Exists(fs[ico_path[p]]) \/ fs[ico_path[p]] = fs0[ico_path[p]])

\* C3: the icon container a successful invocation wrote holds, for every
\* requested size, the largest (512, 512) included, exactly one entry of that
\* size.  Stated for the script's own call.
C3_SizeFidelity ==
  \A p \in Procs :
    (Ended(p) /\ UsageCall(p) /\ result[p] = "True") =>
      LET es == fs[ico_path[p]].entries IN
        \A i \in DOMAIN sizes :
          Cardinality({ j \in DOMAIN es : es[j] = sizes[i] }) = 1

\* C4: when the rasterize stage fails the invocation reports failure, the
\* pack/write stage never runs, and the destination is as it was before.
\* Stated for the claim's example, a source "logo.svg" that does not exist,
\* and an invocation that returned.
C4_RasterFailureKeepsDestination ==
  \A p \in Procs :
    (Ended(p) /\ failed[p] = "rasterize" /\ svg_path[p] = "logo.svg"
       /\ ~Exists(fs0[svg_path[p]]) /\ result[p] \in {"True", "False"})
      => /\ result[p] # "True"
         /\ ~InTrace(p, "open") /\ ~InTrace(p, "save")
         /\ fs[ico_path[p]] = fs0[ico_path[p]]

\* C5: whenever the invocation returns True, both stages completed and a
\* complete icon container exists at ico_path.  Stated for the source
\* "logo.svg" and every ico_path.
C5_SuccessIsDurable ==
  \A p \in Procs :
    (Ended(p) /\ result[p] = "True" /\ svg_path[p] = "logo.svg")
      => /\ failed[p] = "none"
         /\ InTrace(p, "svg2png") /\ InTrace(p, "save")
         /\ fs[ico_path[p]].kind = "ico"

C7_CleanupFaultKeepsOutcome ==
  \A p \in Procs : (Ended(p) /\ UsageCall(p)) => result[p] = Primary(p)

\* C8: the file at svg_path is after the invocation what it was before, and
\* no path other than the temporary path and ico_path is touched.  Stated for
\* the destination "logo.ico", every svg_path, and an invocation that returned.
C8_SourceNeverMutated ==
  \A p \in Procs :
    (Ended(p) /\ ico_path[p] = "logo.ico" /\ result[p] \in {"True", "False"}) =>
      /\ fs[svg_path[p]] = fs0[svg_path[p]]
      /\ \A x \in Paths \ {temp_png, ico_path[p]} : fs[x] = fs0[x]

StageRank(s) ==
  CASE s = "svg2png" -> 1 [] s = "open" -> 2 [] s = "save" -> 3 [] s = "cleanup" -> 4

\* C9: the stages run in the order rasterize, pack/write, cleanup, each at
\* most once; pack/write starts only after a successful rasterize; cleanup
\* runs exactly once, after the other stages and before the return.
C9_StageOrder ==
  \A p \in Procs :
    LET t == trace[p] IN
      /\ \A i, j \in DOMAIN t : i < j => StageRank(t[i]) < StageRank(t[j])
      /\ (InTrace(p, "open") \/ InTrace(p, "save"))
           => (t[1] = "svg2png" /\ failed[p] # "rasterize")
      /\ InTrace(p, "save") => InTrace(p, "open")
      /\ (pc[p] = "done" \/ result[p] # "none")
           => /\ t[1] = "svg2png"
              /\ t[Len(t)] = "cleanup"
              /\ Cardinality({ i \in DOMAIN t : t[i] = "cleanup" }) = 1

\* An invocation that ran all three stages and returned True.
C9_Witness ==
  \E p \in Procs :
    /\ Ended(p) /\ result[p] = "True"
    /\ trace[p] = <<"svg2png", "open", "save", "cleanup">>

\* C10: with invocations running at once, the temporary bitmap an invocation
\* wrote stays in place until that invocation has read it, and the bitmap an
\* invocation packs is the one it rasterized.
C10_NoInterference ==
  \A p \in active :
    /\ pc[p] = "open" => fs[temp_png] = PngFile(p)
    /\ pc[p] = "save" => img[p] = PngFile(p)
====
